---- MODULE Spec2Model ----
(***************************************************************************)
(* Pull-request reviewer assigner: the PostgreSQL tables (teams, users,    *)
(* team_members, pull_requests, pr_reviewers) and the request handlers of  *)
(* the team, user and pull-request services.  Every SQL statement that     *)
(* runs outside a transaction is one atomic step (autocommit); the         *)
(* statements of a transaction are steps whose writes stay private to the  *)
(* transaction until its commit (READ COMMITTED, the isolation level the   *)
(* code leaves at the server's default), and a write to a row that another *)
(* open transaction wrote waits for that transaction to end.               *)
(***************************************************************************)
EXTENDS Integers, Sequences, FiniteSets, Bags, TLC

\* ---------------------------------------------------------------- bounds
MaxUser == 5
NumWorkers == 2
MaxMembers == 1
MaxRequests == 3
MaxRequestsSeq == 4
MaxRequestsAll == 2
MaxRequestsDir == 3
MaxRequestsRead == 4
MaxRequestsStats == 4
MaxMembersDir == 2

Keys == 1..MaxUser
Workers == 1..NumWorkers
TeamNames == {"Backend", "QA"}
PRIds == {"PR-1"}
PRIdsStats == {"PR-1", "PR-2"}

\* ------------------------------------------------------- identity codec
\* External ids are strings; a string is modelled as the sequence of its
\* characters.
DigitChars == <<"0", "1", "2", "3", "4", "5", "6", "7", "8", "9">>

IsDigit(c) == \E i \in 1..Len(DigitChars) : DigitChars[i] = c

DigitVal(c) == (CHOOSE i \in 1..Len(DigitChars) : DigitChars[i] = c) - 1

RECURSIVE Dec(_)
Dec(n) == IF n < Len(DigitChars) THEN <<DigitChars[n + 1]>>
          ELSE Dec(n \div Len(DigitChars)) \o <<DigitChars[(n % Len(DigitChars)) + 1]>>

\* fmt.Sprintf("u%d", id)
FormatUserID(id) == <<"u">> \o Dec(id)

RECURSIVE ScanNumber(_, _, _)
ScanNumber(s, i, acc) ==
  IF i <= Len(s) /\ IsDigit(s[i])
  THEN ScanNumber(s, i + 1, acc * Len(DigitChars) + DigitVal(s[i]))
  ELSE acc

\* fmt.Sscanf(userIDStr, "u%d", &userID): the literal "u", then the longest
\* run of decimal digits (at least one); whatever follows the digits is left
\* unread and is no error.
extractUserID(userIDStr) ==
  IF Len(userIDStr) >= 2 /\ userIDStr[1] = "u" /\ IsDigit(userIDStr[2])
  THEN [ok |-> TRUE, id |-> ScanNumber(userIDStr, 2, 0)]
  ELSE [ok |-> FALSE, id |-> 0]

Blank == << >>
CanonicalIds == {FormatUserID(k) : k \in Keys}
\* "u01" names user 1 in a second spelling; "x1" is malformed.
UnknownId == FormatUserID(MaxUser + 1)
\* The fixture users are interchangeable, so user 1 stands for the author.
AuthorInputs == {FormatUserID(1), <<"u", "0", "1">>, <<"x", "1">>, UnknownId, Blank}
ReviewerInputs == CanonicalIds \cup {Blank}
UserInputs == CanonicalIds \cup {<<"u", "x">>, <<"x", "1">>, Blank}

\* The member lists of a team request: distinct users in ascending id order,
\* each with its own active flag.
Member(k, active) == [UserID |-> FormatUserID(k), Username |-> "name", IsActive |-> active]

\* A member whose user_id does not scan as "u%d".
MalformedMember == [UserID |-> <<"x", "1">>, Username |-> "name", IsActive |-> TRUE]

MemberLists ==
  {m \in UNION {[1..n -> {Member(k, a) : k \in Keys, a \in BOOLEAN} \cup {MalformedMember}] :
                  n \in 0..MaxMembers} :
     \A i \in 1..(Len(m) - 1) :
        extractUserID(m[i].UserID).id < extractUserID(m[i + 1].UserID).id}

\* The members of the directory runs: user 1 of the fixture in both spellings,
\* a user the store does not hold yet, and a malformed id; two usernames.
MemberNamed(userID, username, active) ==
  [UserID |-> userID, Username |-> username, IsActive |-> active]

DirMembers ==
  {MemberNamed(id, n, a) : id \in {FormatUserID(1), UnknownId},
                           n \in {"name", "alias"}, a \in BOOLEAN}
  \cup {MemberNamed(<<"u", "0", "1">>, "name", TRUE), MalformedMember}

MemberListsDir ==
  {m \in UNION {[1..n -> DirMembers] : n \in 0..MaxMembersDir} :
     \A i \in 1..(Len(m) - 1) :
        extractUserID(m[i].UserID).id < extractUserID(m[i + 1].UserID).id}

UserInputsDir ==
  {FormatUserID(1), <<"u", "0", "1">>, UnknownId, <<"u", "x">>, <<"x", "1">>, Blank}

\* ---------------------------------------------------------------- state
VARIABLES
  teams,          \* table teams: the set of team_name
  users,          \* table users: user_id -> [username, team_name, is_active]
  team_members,   \* table team_members: set of <<team_name, user_id>>
  pull_requests,  \* table pull_requests: pull_request_id -> row
  pr_reviewers,   \* table pr_reviewers: bag of <<pull_request_id, reviewer_id>>
  clock,          \* the last value time.Now() returned
  req,            \* per worker: the request it serves and where it stands
  budget          \* the number of requests still to be received

vars == <<teams, users, team_members, pull_requests, pr_reviewers, clock, req, budget>>

NULL == 0

\* models.PullRequest as the service sees it (AuthorID is the external id).
NoPR == [PullRequestId |-> "", PullRequestName |-> "", AuthorID |-> Blank,
         Status |-> "", CreatedAt |-> NULL, MergedAt |-> NULL]

\* AvgReviewersPerPR is the quotient num / den, kept as the pair it is
\* computed from.
NoStats == [TotalPRs |-> 0, OpenPRs |-> 0, MergedPRs |-> 0,
            AvgReviewersPerPR |-> [num |-> 0, den |-> 1]]

NoRet == [pr |-> NoPR, reviewers |-> {}, replaced_by |-> Blank, count |-> 0,
          members |-> {}, prs |-> {}, stats |-> NoStats]

Idle == [pc |-> "idle", op |-> "", prID |-> "", prName |-> "", userID |-> Blank,
         teamName |-> "", members |-> << >>, isActive |-> FALSE,
         pr |-> NoPR, reviewers |-> << >>, seen |-> {}, newReviewer |-> Blank,
         deleted |-> FALSE, now |-> NULL, err |-> "", ret |-> NoRet]

\* The store with the "Backend" team of the integration fixtures: its members
\* are the users 1..MaxUser, all active, and there is no pull request.
Fixture(requests) ==
  /\ teams = {"Backend"}
  /\ users = [k \in Keys |-> [username |-> "name", team_name |-> "Backend",
                              is_active |-> TRUE]]
  /\ team_members = {<<"Backend", k>> : k \in Keys}
  /\ pull_requests = << >>
  /\ pr_reviewers = EmptyBag
  /\ clock = 0
  /\ req = [p \in Workers |-> Idle]
  /\ budget = requests

\* The initial state of the concurrent runs, and of the sequential ones.
Init == Fixture(MaxRequests)

InitSeq == Fixture(MaxRequestsSeq)

InitAll == Fixture(MaxRequestsAll)

InitDir == Fixture(MaxRequestsDir)

InitRead == Fixture(MaxRequestsRead)

InitStats == Fixture(MaxRequestsStats)

\* The request of worker p ends: the service returns err (or "OK") and ret;
\* the caller still knows the ids it called with.
Return(p, err, ret) ==
  req' = [req EXCEPT ![p] = [Idle EXCEPT !.pc = "done", !.op = req[p].op,
                                         !.prID = req[p].prID,
                                         !.userID = req[p].userID,
                                         !.err = err, !.ret = ret]]

Goto(p, pc) == req' = [req EXCEPT ![p].pc = pc]

Free(p) == req[p].pc \in {"idle", "done"}

\* The next request goes to the first free worker.
Receive(p) ==
  /\ Free(p)
  /\ \A q \in Workers : q < p => ~Free(q)
  /\ budget > 0
  /\ budget' = budget - 1

\* ------------------------------------------------------- store: reads
StoreUnchanged == UNCHANGED <<teams, users, team_members, pull_requests, pr_reviewers>>

\* time.Now(): every call reads a later time than the call before it.
Now(t) == t = clock + 1 /\ clock' = t

\* SELECT COUNT(*) FROM pull_requests WHERE pull_request_id = $1
PRExists(prID) == prID \in DOMAIN pull_requests

\* SELECT ... FROM pull_requests WHERE pull_request_id = $1; the row's integer
\* author_id is returned formatted.
GetPR(prID) ==
  [PullRequestId |-> prID,
   PullRequestName |-> pull_requests[prID].pull_request_name,
   AuthorID |-> FormatUserID(pull_requests[prID].author_id),
   Status |-> pull_requests[prID].status,
   CreatedAt |-> pull_requests[prID].created_at,
   MergedAt |-> pull_requests[prID].merged_at]

\* The reviewer_id values of the committed rows of one PR.
ReviewerKeys(prID) == {row[2] : row \in {r \in BagToSet(pr_reviewers) : r[1] = prID}}

\* SELECT reviewer_id FROM pr_reviewers WHERE pull_request_id = $1, each
\* formatted (second half of GetPRWithReviewers).
GetReviewers(prID) == {FormatUserID(k) : k \in ReviewerKeys(prID)}

\* SELECT team_name FROM users WHERE user_id = $1
GetAuthorTeam(authorID) ==
  LET parsed == extractUserID(authorID) IN
  IF ~parsed.ok THEN [err |-> "ErrAuthorRequired", team |-> ""]
  ELSE IF parsed.id \notin DOMAIN users THEN [err |-> "ErrPRAuthorNotFound", team |-> ""]
  ELSE [err |-> "", team |-> users[parsed.id].team_name]

\* (A query that ignored excludeUserIDs would return every active member.)
GetActiveTeamMembers_noExclude(teamName, excludeUserIDs) ==
  {FormatUserID(k) : k \in {u \in DOMAIN users :
              users[u].team_name = teamName /\ users[u].is_active}}

\* (A query without "AND is_active = true" would return inactive members.)
GetActiveTeamMembers_anyActivity(teamName, excludeUserIDs) ==
  {s \in {FormatUserID(k) : k \in {u \in DOMAIN users :
              users[u].team_name = teamName}} :
     s \notin excludeUserIDs}

\* SELECT user_id FROM users WHERE team_name = $1 AND is_active = true, then
\* the ids whose formatted string is not one of excludeUserIDs.
GetActiveTeamMembers(teamName, excludeUserIDs) ==
  {s \in {FormatUserID(k) : k \in {u \in DOMAIN users :
              users[u].team_name = teamName /\ users[u].is_active}} :
     s \notin excludeUserIDs}

\* ---------------------------------------------------- reviewer selection
Shuffles(S) ==
  {f \in [1..Cardinality(S) -> S] : \A i, j \in 1..Cardinality(S) : f[i] = f[j] => i = j}

Min(a, b) == IF a <= b THEN a ELSE b

\* (A selection that skipped the shuffle would always give the same list.)
selectRandomReviewers_noShuffle(members, max) ==
  {SubSeq(CHOOSE f \in Shuffles(members) : TRUE, 1, Min(max, Cardinality(members)))}

\* The results a shuffle of members followed by taking the first max can give.
selectRandomReviewers(members, max) ==
  {SubSeq(f, 1, Min(max, Cardinality(members))) : f \in Shuffles(members)}

\* The results a shuffle of members followed by taking members[0] can give.
selectRandomReviewer(members) ==
  IF members = {} THEN {Blank} ELSE {f[1] : f \in Shuffles(members)}

MaxReviewers == 2

\* ----------------------------------------------- store: row-level locks
\* The pr_reviewers rows an open ReplaceReviewer transaction of worker q has
\* deleted or inserted and not yet committed.
HeldRows(q) ==
  (IF req[q].pc \in {"rs_insert", "rs_commit"} /\ req[q].deleted
   THEN {<<req[q].prID, extractUserID(req[q].userID).id>>} ELSE {})
  \cup
  (IF req[q].pc = "rs_commit"
   THEN {<<req[q].prID, extractUserID(req[q].newReviewer).id>>} ELSE {})

HeldByOther(p, row) == \E q \in DOMAIN req \ {p} : row \in HeldRows(q)

\* PRIMARY KEY (pull_request_id, reviewer_id) of pr_reviewers: an INSERT of a
\* row whose key is present fails.
\* (A pr_reviewers table without the primary key accepts every INSERT.)
ReviewerKeyTaken_noKey(row) == FALSE

ReviewerKeyTaken(row) == BagIn(row, pr_reviewers)

SeqToSet(s) == {s[i] : i \in 1..Len(s)}

\* ------------------------------------------------- CreatePRWithReviewers
CreatePR_Start(p, prID, prName, authorID) ==
  /\ Receive(p)
  /\ LET r == [Idle EXCEPT !.op = "createPR", !.prID = prID, !.prName = prName,
                           !.userID = authorID]
         fail(e) == req' = [req EXCEPT ![p] = [r EXCEPT !.pc = "done", !.err = e]]
     IN IF prID = "" THEN fail("ErrPRIDRequired")
        ELSE IF prName = "" THEN fail("ErrPRNameRequired")
        ELSE IF authorID = Blank THEN fail("ErrAuthorRequired")
        ELSE req' = [req EXCEPT ![p] = [r EXCEPT !.pc = "cr_exists"]]
  /\ StoreUnchanged /\ UNCHANGED clock

CreatePR_PRExists(p) ==
  /\ req[p].pc = "cr_exists"
  /\ IF PRExists(req[p].prID) THEN Return(p, "ErrPRExists", NoRet)
     ELSE Goto(p, "cr_team")
  /\ StoreUnchanged /\ UNCHANGED <<clock, budget>>

CreatePR_GetAuthorTeam(p) ==
  /\ req[p].pc = "cr_team"
  /\ LET t == GetAuthorTeam(req[p].userID) IN
     IF t.err # "" THEN Return(p, t.err, NoRet)
     ELSE req' = [req EXCEPT ![p].pc = "cr_members", ![p].teamName = t.team]
  /\ StoreUnchanged /\ UNCHANGED <<clock, budget>>

CreatePR_GetActiveTeamMembers(p) ==
  /\ req[p].pc = "cr_members"
  /\ LET teamMembers == GetActiveTeamMembers(req[p].teamName, {req[p].userID}) IN
     IF teamMembers = {} THEN Return(p, "ErrNoReviewerCandidates", NoRet)
     ELSE \E reviewers \in selectRandomReviewers(teamMembers, MaxReviewers) :
            req' = [req EXCEPT ![p].pc = "cr_insert", ![p].reviewers = reviewers]
  /\ StoreUnchanged /\ UNCHANGED <<clock, budget>>

\* A duplicate-key error of the driver reads
\*   pq: duplicate key value violates unique constraint "<constraint name>"
\* and isDuplicateKeyError compares the whole message with the text that ends
\* before the constraint name.
DuplicateKeyMessage(constraint) ==
  <<"pq: duplicate key value violates unique constraint", constraint>>

isDuplicateKeyError(err) ==
  err = <<"pq: duplicate key value violates unique constraint">>

\* INSERT INTO pull_requests ... (autocommit), with CreatedAt = time.Now().
CreatePR_CreatePR(p) ==
  /\ req[p].pc = "cr_insert"
  /\ LET author == extractUserID(req[p].userID) IN
     IF ~author.ok
     THEN Return(p, "ErrAuthorRequired", NoRet)
          /\ UNCHANGED <<pull_requests, clock>>
     ELSE IF req[p].prID \in DOMAIN pull_requests
     THEN /\ Return(p, IF isDuplicateKeyError(DuplicateKeyMessage("pull_requests_pkey"))
                       THEN "ErrPRExists" ELSE "Internal", NoRet)
          /\ UNCHANGED <<pull_requests, clock>>
     ELSE \E t \in {clock + 1} :
            /\ Now(t)
            /\ pull_requests' =
                 [id \in DOMAIN pull_requests \cup {req[p].prID} |->
                    IF id = req[p].prID
                    THEN [pull_request_name |-> req[p].prName, author_id |-> author.id,
                          status |-> "OPEN", created_at |-> t, merged_at |-> NULL]
                    ELSE pull_requests[id]]
            /\ Goto(p, "cr_add")
  /\ UNCHANGED <<teams, users, team_members, pr_reviewers, budget>>

\* AddPRReviewers: one transaction that inserts a row per reviewer.
CreatePR_AddPRReviewers(p) ==
  /\ req[p].pc = "cr_add"
  /\ LET rows == [i \in 1..Len(req[p].reviewers) |->
                    <<req[p].prID, extractUserID(req[p].reviewers[i]).id>>]
     IN /\ \A i \in 1..Len(rows) : ~HeldByOther(p, rows[i])
        /\ IF \/ \E i \in 1..Len(rows) : ReviewerKeyTaken(rows[i])
              \/ \E i, j \in 1..Len(rows) : i # j /\ rows[i] = rows[j]
           THEN Return(p, "Internal", NoRet) /\ UNCHANGED pr_reviewers
           ELSE /\ pr_reviewers' = pr_reviewers (+) SetToBag(SeqToSet(rows))
                /\ Goto(p, "cr_getpr")
  /\ UNCHANGED <<teams, users, team_members, pull_requests, clock, budget>>

\* GetPRWithReviewers, first statement (the last call of every PR operation).
PR_GetPR(p) ==
  /\ req[p].pc \in {"cr_getpr", "mg_getpr", "rs_getpr2"}
  /\ IF ~PRExists(req[p].prID) THEN Return(p, "ErrPRNotFound", NoRet)
     ELSE req' = [req EXCEPT ![p].pr = GetPR(req[p].prID),
                             ![p].pc = IF req[p].pc = "cr_getpr" THEN "cr_getrev"
                                       ELSE IF req[p].pc = "mg_getpr" THEN "mg_getrev"
                                       ELSE "rs_getrev2"]
  /\ StoreUnchanged /\ UNCHANGED <<clock, budget>>

\* GetPRWithReviewers, second statement, and the operation's return.
PR_GetReviewers(p) ==
  /\ req[p].pc \in {"cr_getrev", "mg_getrev", "rs_getrev2"}
  /\ Return(p, "OK", [NoRet EXCEPT !.pr = req[p].pr,
                                   !.reviewers = GetReviewers(req[p].prID),
                                   !.replaced_by = req[p].newReviewer])
  /\ StoreUnchanged /\ UNCHANGED <<clock, budget>>

\* ------------------------------------------------- CreateTeamWithMembers
\* (A lookup that found every team name.)
TeamExists_always(teamName) == TRUE

\* SELECT COUNT(*) FROM teams WHERE team_name = $1
TeamExists(teamName) == teamName \in teams

\* (ON CONFLICT (user_id) DO NOTHING would keep the row of a user that exists.)
UpsertedRow_doNothing(table, id, row) == IF id \in DOMAIN table THEN table[id] ELSE row

\* ON CONFLICT (user_id) DO UPDATE SET username, team_name, is_active =
\* EXCLUDED.*: the row of user id after the statement.
UpsertedRow(table, id, row) == row

\* The users table after the upserts of AddTeamMembers, member by member:
\* INSERT ... ON CONFLICT (user_id) DO UPDATE SET username, team_name, is_active.
RECURSIVE UpsertUsers(_, _, _)
UpsertUsers(table, teamName, members) ==
  IF members = << >> THEN table
  ELSE LET m == Head(members)
           id == extractUserID(m.UserID).id
           row == [username |-> m.Username, team_name |-> teamName,
                   is_active |-> m.IsActive]
       IN UpsertUsers([k \in DOMAIN table \cup {id} |->
                         IF k = id THEN UpsertedRow(table, id, row) ELSE table[k]],
                      teamName, Tail(members))

\* SELECT u.* FROM users u JOIN team_members tm ON u.user_id = tm.user_id
\* WHERE tm.team_name = $1, the ids formatted.
GetTeamMembers(teamName) ==
  {[UserID |-> FormatUserID(k), Username |-> users[k].username,
    TeamName |-> users[k].team_name, IsActive |-> users[k].is_active] :
     k \in {u \in DOMAIN users : <<teamName, u>> \in team_members}}

CreateTeam_Start(p, teamName, members) ==
  /\ Receive(p)
  /\ LET r == [Idle EXCEPT !.op = "createTeam", !.teamName = teamName]
         fail(e) == req' = [req EXCEPT ![p] = [r EXCEPT !.pc = "done", !.err = e]]
     IN IF teamName = "" THEN fail("ErrTeamNameRequired")
        ELSE IF Len(members) = 0 THEN fail("ErrMembersRequired")
        ELSE IF \E i \in 1..Len(members) :
                  members[i].UserID = Blank \/ members[i].Username = ""
        THEN fail("ErrMemberFieldRequired")
        ELSE req' = [req EXCEPT ![p] = [r EXCEPT !.pc = "ct_exists", !.members = members]]
  /\ StoreUnchanged /\ UNCHANGED clock

CreateTeam_TeamExists(p) ==
  /\ req[p].pc = "ct_exists"
  /\ IF TeamExists(req[p].teamName) THEN Return(p, "ErrTeamExists", NoRet)
     ELSE Goto(p, "ct_create")
  /\ StoreUnchanged /\ UNCHANGED <<clock, budget>>

\* INSERT INTO teams (team_name) VALUES ($1) (autocommit)
CreateTeam_CreateTeam(p) ==
  /\ req[p].pc = "ct_create"
  /\ IF req[p].teamName \in teams
     THEN /\ Return(p, IF isDuplicateKeyError(DuplicateKeyMessage("teams_pkey"))
                       THEN "ErrTeamExists" ELSE "Internal", NoRet)
          /\ UNCHANGED teams
     ELSE /\ teams' = teams \cup {req[p].teamName}
          /\ Goto(p, "ct_add")
  /\ UNCHANGED <<users, team_members, pull_requests, pr_reviewers, clock, budget>>

\* AddTeamMembers: one transaction, the user upserts and then the membership
\* rows (INSERT ... ON CONFLICT DO NOTHING).
CreateTeam_AddTeamMembers(p) ==
  /\ req[p].pc = "ct_add"
  /\ LET members == req[p].members IN
     IF \E i \in 1..Len(members) : ~extractUserID(members[i].UserID).ok
     THEN Return(p, "ErrInvalidUserID", NoRet) /\ UNCHANGED <<users, team_members>>
     ELSE /\ users' = UpsertUsers(users, req[p].teamName, members)
          /\ team_members' = team_members \cup
               {<<req[p].teamName, extractUserID(members[i].UserID).id>> :
                  i \in 1..Len(members)}
          /\ req' = [req EXCEPT ![p].pc = "ct_getteam", ![p].members = << >>]
  /\ UNCHANGED <<teams, pull_requests, pr_reviewers, clock, budget>>

\* GetTeamWithMembers, first statement.
CreateTeam_GetTeam(p) ==
  /\ req[p].pc = "ct_getteam"
  /\ IF ~TeamExists(req[p].teamName) THEN Return(p, "ErrTeamNotFound", NoRet)
     ELSE Goto(p, "ct_getmembers")
  /\ StoreUnchanged /\ UNCHANGED <<clock, budget>>

\* GetTeamWithMembers, second statement, and the operation's return.
CreateTeam_GetMembers(p) ==
  /\ req[p].pc = "ct_getmembers"
  /\ Return(p, "OK", [NoRet EXCEPT !.members = GetTeamMembers(req[p].teamName)])
  /\ StoreUnchanged /\ UNCHANGED <<clock, budget>>

\* ---------------------------------------------------- GetTeamWithMembers
\* The handler's and the service's check of team_name; the two statements of
\* the repository's GetTeamWithMembers are the steps CreateTeam_GetTeam and
\* CreateTeam_GetMembers.
GetTeam_Start(p, teamName) ==
  /\ Receive(p)
  /\ LET r == [Idle EXCEPT !.op = "getTeam", !.teamName = teamName] IN
     IF teamName = ""
     THEN req' = [req EXCEPT ![p] = [r EXCEPT !.pc = "done", !.err = "ErrTeamNameRequired"]]
     ELSE req' = [req EXCEPT ![p] = [r EXCEPT !.pc = "ct_getteam"]]
  /\ StoreUnchanged /\ UNCHANGED clock

\* --------------------------------------------------------- AddTeamMembers
\* TeamRepo.AddTeamMembers called for a team on its own.
AddTeamMembers_Start(p, teamName, members) ==
  /\ Receive(p)
  /\ req' = [req EXCEPT ![p] = [Idle EXCEPT !.op = "addMembers", !.pc = "am_tx",
                                            !.teamName = teamName,
                                            !.members = members]]
  /\ StoreUnchanged /\ UNCHANGED clock

\* (Without the foreign key of users.team_name the upserts would go through
\* for a team name that teams does not hold.)
AddTeamMembers_Tx_noForeignKey(p) ==
  /\ req[p].pc = "am_tx"
  /\ LET members == req[p].members IN
     IF \E i \in 1..Len(members) : ~extractUserID(members[i].UserID).ok
     THEN Return(p, "ErrInvalidUserID", NoRet) /\ UNCHANGED <<users, team_members>>
     ELSE /\ users' = UpsertUsers(users, req[p].teamName, members)
          /\ team_members' = team_members \cup
               {<<req[p].teamName, extractUserID(members[i].UserID).id>> :
                  i \in 1..Len(members)}
          /\ Return(p, "OK", NoRet)
  /\ UNCHANGED <<teams, pull_requests, pr_reviewers, clock, budget>>

\* The transaction: a malformed id ends it with ErrInvalidUserID, a team name
\* that teams does not hold fails the first upsert on the foreign key of
\* users.team_name; either way it rolls back.
AddTeamMembers_Tx(p) ==
  /\ req[p].pc = "am_tx"
  /\ LET members == req[p].members IN
     IF \E i \in 1..Len(members) : ~extractUserID(members[i].UserID).ok
     THEN Return(p, "ErrInvalidUserID", NoRet) /\ UNCHANGED <<users, team_members>>
     ELSE IF Len(members) > 0 /\ req[p].teamName \notin teams
     THEN Return(p, "Internal", NoRet) /\ UNCHANGED <<users, team_members>>
     ELSE /\ users' = UpsertUsers(users, req[p].teamName, members)
          /\ team_members' = team_members \cup
               {<<req[p].teamName, extractUserID(members[i].UserID).id>> :
                  i \in 1..Len(members)}
          /\ Return(p, "OK", NoRet)
  /\ UNCHANGED <<teams, pull_requests, pr_reviewers, clock, budget>>

\* --------------------------------------------------- DeactivateTeamUsers
Deactivate_Start(p, teamName) ==
  /\ Receive(p)
  /\ LET r == [Idle EXCEPT !.op = "deactivate", !.teamName = teamName] IN
     IF teamName = ""
     THEN req' = [req EXCEPT ![p] = [r EXCEPT !.pc = "done", !.err = "ErrTeamNameRequired"]]
     ELSE req' = [req EXCEPT ![p] = [r EXCEPT !.pc = "dt_exists"]]
  /\ StoreUnchanged /\ UNCHANGED clock

Deactivate_TeamExists(p) ==
  /\ req[p].pc = "dt_exists"
  /\ IF ~TeamExists(req[p].teamName) THEN Return(p, "ErrTeamNotFound", NoRet)
     ELSE Goto(p, "dt_update")
  /\ StoreUnchanged /\ UNCHANGED <<clock, budget>>

\* (A deactivation that also withdrew the deactivated users' assignments.)
Deactivate_DeactivateTeamUsers_unassign(p) ==
  /\ req[p].pc = "dt_update"
  /\ LET hit == {k \in DOMAIN users :
                   users[k].team_name = req[p].teamName /\ users[k].is_active}
     IN /\ users' = [k \in DOMAIN users |->
                       IF k \in hit THEN [users[k] EXCEPT !.is_active = FALSE] ELSE users[k]]
        /\ pr_reviewers' = [row \in {r \in DOMAIN pr_reviewers : r[2] \notin hit} |->
                              pr_reviewers[row]]
        /\ Return(p, "OK", [NoRet EXCEPT !.count = Cardinality(hit)])
  /\ UNCHANGED <<teams, team_members, pull_requests, clock, budget>>

\* (A deactivation that reported every user of the team, not the rows changed.)
Deactivate_DeactivateTeamUsers_countAll(p) ==
  /\ req[p].pc = "dt_update"
  /\ LET hit == {k \in DOMAIN users : users[k].team_name = req[p].teamName}
     IN /\ users' = [k \in DOMAIN users |->
                       IF k \in hit THEN [users[k] EXCEPT !.is_active = FALSE] ELSE users[k]]
        /\ Return(p, "OK", [NoRet EXCEPT !.count = Cardinality(hit)])
  /\ UNCHANGED <<teams, team_members, pull_requests, pr_reviewers, clock, budget>>

\* UPDATE users SET is_active = false WHERE team_name = $1 AND is_active = true
Deactivate_DeactivateTeamUsers(p) ==
  /\ req[p].pc = "dt_update"
  /\ LET hit == {k \in DOMAIN users :
                   users[k].team_name = req[p].teamName /\ users[k].is_active}
     IN /\ users' = [k \in DOMAIN users |->
                       IF k \in hit THEN [users[k] EXCEPT !.is_active = FALSE] ELSE users[k]]
        /\ Return(p, "OK", [NoRet EXCEPT !.count = Cardinality(hit)])
  /\ UNCHANGED <<teams, team_members, pull_requests, pr_reviewers, clock, budget>>

\* --------------------------------------------------- SetUserActiveStatus
\* strconv.Atoi over the modelled alphabet: every character a decimal digit,
\* at least one.
Atoi(s) ==
  IF Len(s) >= 1 /\ \A i \in 1..Len(s) : IsDigit(s[i])
  THEN [ok |-> TRUE, id |-> ScanNumber(s, 1, 0)]
  ELSE [ok |-> FALSE, id |-> 0]

\* The handler's checks (blank, prefix "u") and the service's Atoi(userID[1:]).
SetIsActive_Start(p, isActive, userID) ==
  /\ Receive(p)
  /\ LET r == [Idle EXCEPT !.op = "setActive", !.userID = userID, !.isActive = isActive]
         fail(e) == req' = [req EXCEPT ![p] = [r EXCEPT !.pc = "done", !.err = e]]
     IN IF userID = Blank THEN fail("USER_ID_REQUIRED")
        ELSE IF userID[1] # "u" THEN fail("INVALID_USER_ID")
        ELSE IF ~Atoi(Tail(userID)).ok THEN fail("Internal")
        ELSE req' = [req EXCEPT ![p] = [r EXCEPT !.pc = "su_update"]]
  /\ StoreUnchanged /\ UNCHANGED clock

\* (An UPDATE without "WHERE user_id = $2" would set every user's flag.)
SetIsActive_SetIsActive_noWhere(p) ==
  /\ req[p].pc = "su_update"
  /\ LET id == Atoi(Tail(req[p].userID)).id IN
     IF id \notin DOMAIN users
     THEN Return(p, "ErrUserNotFound", NoRet) /\ UNCHANGED users
     ELSE /\ users' = [k \in DOMAIN users |-> [users[k] EXCEPT !.is_active = req[p].isActive]]
          /\ Return(p, "OK", [NoRet EXCEPT !.members =
               {[UserID |-> FormatUserID(id), Username |-> users[id].username,
                 TeamName |-> users[id].team_name, IsActive |-> req[p].isActive]}])
  /\ UNCHANGED <<teams, team_members, pull_requests, pr_reviewers, clock, budget>>

\* UPDATE users SET is_active = $1 WHERE user_id = $2 RETURNING ...
SetIsActive_SetIsActive(p) ==
  /\ req[p].pc = "su_update"
  /\ LET id == Atoi(Tail(req[p].userID)).id IN
     IF id \notin DOMAIN users
     THEN Return(p, "ErrUserNotFound", NoRet) /\ UNCHANGED users
     ELSE /\ users' = [users EXCEPT ![id].is_active = req[p].isActive]
          /\ Return(p, "OK", [NoRet EXCEPT !.members =
               {[UserID |-> FormatUserID(id), Username |-> users[id].username,
                 TeamName |-> users[id].team_name, IsActive |-> req[p].isActive]}])
  /\ UNCHANGED <<teams, team_members, pull_requests, pr_reviewers, clock, budget>>

\* ---------------------------------------------------------- GetUserReview
\* (A query restricted to open pull requests.)
GetReview_openOnly(userID) ==
  {[PullRequestId |-> id,
    PullRequestName |-> pull_requests[id].pull_request_name,
    AuthorID |-> FormatUserID(pull_requests[id].author_id),
    Status |-> pull_requests[id].status] :
     id \in {i \in DOMAIN pull_requests :
               <<i, userID>> \in BagToSet(pr_reviewers) /\ pull_requests[i].status = "OPEN"}}

\* SELECT pr.pull_request_id, pr.pull_request_name, pr.author_id, pr.status
\* FROM pull_requests pr JOIN pr_reviewers prr ON ... WHERE prr.reviewer_id = $1,
\* each author_id formatted.
GetReview(userID) ==
  {[PullRequestId |-> id,
    PullRequestName |-> pull_requests[id].pull_request_name,
    AuthorID |-> FormatUserID(pull_requests[id].author_id),
    Status |-> pull_requests[id].status] :
     id \in {i \in DOMAIN pull_requests : <<i, userID>> \in BagToSet(pr_reviewers)}}

\* The handler's checks (blank, prefix "u") and the service's Atoi(userID[1:]).
GetReview_Start(p, userID) ==
  /\ Receive(p)
  /\ LET r == [Idle EXCEPT !.op = "getReview", !.userID = userID]
         fail(e) == req' = [req EXCEPT ![p] = [r EXCEPT !.pc = "done", !.err = e]]
     IN IF userID = Blank THEN fail("USER_ID_REQUIRED")
        ELSE IF userID[1] # "u" THEN fail("INVALID_USER_ID")
        ELSE IF ~Atoi(Tail(userID)).ok THEN fail("Internal")
        ELSE req' = [req EXCEPT ![p] = [r EXCEPT !.pc = "gr_select"]]
  /\ StoreUnchanged /\ UNCHANGED clock

GetReview_GetReview(p) ==
  /\ req[p].pc = "gr_select"
  /\ Return(p, "OK", [NoRet EXCEPT !.prs = GetReview(Atoi(Tail(req[p].userID)).id)])
  /\ StoreUnchanged /\ UNCHANGED <<clock, budget>>

\* ------------------------------------------------------------- GetPRStats
\* (COUNT(status) would count every row, whatever its status.)
CountStatus_everyRow(status) == Cardinality(DOMAIN pull_requests)

\* COUNT(CASE WHEN status = '...' THEN 1 END) FROM pull_requests
CountStatus(status) ==
  Cardinality({id \in DOMAIN pull_requests : pull_requests[id].status = status})

\* (An inner JOIN would drop the pull requests that have no reviewer row.)
StatsJoinRows_inner == BagToSet(pr_reviewers)

\* FROM pull_requests pr LEFT JOIN pr_reviewers prr ON ...: a row <<pr, reviewer>>
\* for every reviewer row, and a row <<pr, NULL>> for a PR that has none.
StatsJoinRows ==
  {row \in BagToSet(pr_reviewers) : row[1] \in DOMAIN pull_requests}
  \cup {<<id, NULL>> : id \in {i \in DOMAIN pull_requests : ReviewerKeys(i) = {}}}

\* CASE WHEN COUNT(DISTINCT pr.pull_request_id) = 0 THEN 0
\* ELSE CAST(COUNT(prr.reviewer_id) AS FLOAT) / COUNT(DISTINCT pr.pull_request_id) END
AvgReviewers ==
  LET distinct == Cardinality({row[1] : row \in StatsJoinRows})
      reviewerIds == Cardinality({row \in StatsJoinRows : row[2] # NULL})
  IN IF distinct = 0 THEN [num |-> 0, den |-> 1]
     ELSE [num |-> reviewerIds, den |-> distinct]

GetPRStats_Start(p) ==
  /\ Receive(p)
  /\ req' = [req EXCEPT ![p] = [Idle EXCEPT !.op = "getStats", !.pc = "st_counts"]]
  /\ StoreUnchanged /\ UNCHANGED clock

\* The first query: the three counts.
GetPRStats_Counts(p) ==
  /\ req[p].pc = "st_counts"
  /\ req' = [req EXCEPT ![p].pc = "st_avg",
                        ![p].ret.stats.TotalPRs = Cardinality(DOMAIN pull_requests),
                        ![p].ret.stats.OpenPRs = CountStatus("OPEN"),
                        ![p].ret.stats.MergedPRs = CountStatus("MERGED")]
  /\ StoreUnchanged /\ UNCHANGED <<clock, budget>>

\* The second query: the average, and the operation's return.
GetPRStats_Avg(p) ==
  /\ req[p].pc = "st_avg"
  /\ Return(p, "OK", [req[p].ret EXCEPT !.stats.AvgReviewersPerPR = AvgReviewers])
  /\ StoreUnchanged /\ UNCHANGED <<clock, budget>>

\* --------------------------------------------------------------- MergePR
MergePR_Start(p, prID) ==
  /\ Receive(p)
  /\ LET r == [Idle EXCEPT !.op = "merge", !.prID = prID] IN
     IF prID = ""
     THEN req' = [req EXCEPT ![p] = [r EXCEPT !.pc = "done", !.err = "ErrPRIDRequired"]]
     ELSE req' = [req EXCEPT ![p] = [r EXCEPT !.pc = "mg_update"]]
  /\ StoreUnchanged /\ UNCHANGED clock

\* (Without "pull_request_id = $2" the UPDATE would change every open row.)
MergeTargets_anyId(prID) == {id \in DOMAIN pull_requests :
                               pull_requests[id].status # "MERGED"}

\* (Without "AND status != 'MERGED'" the UPDATE would also change a merged row.)
MergeTargets_anyStatus(prID) == {id \in DOMAIN pull_requests : id = prID}

\* The rows UPDATE pull_requests ... WHERE pull_request_id = $2 AND
\* status != 'MERGED' changes.
MergeTargets(prID) == {id \in DOMAIN pull_requests :
                         id = prID /\ pull_requests[id].status # "MERGED"}

\* (An UPDATE that overwrote the status alone would leave merged_at NULL.)
MergedRow_noStamp(row, t) == [row EXCEPT !.status = "MERGED"]

\* SET status = 'MERGED', merged_at = $1
MergedRow(row, t) == [row EXCEPT !.status = "MERGED", !.merged_at = t]

\* UPDATE pull_requests SET status = 'MERGED', merged_at = time.Now() WHERE ...
MergePR_MergePR(p) ==
  /\ req[p].pc = "mg_update"
  /\ \E t \in {clock + 1} :
       /\ Now(t)
       /\ pull_requests' = [id \in DOMAIN pull_requests |->
            IF id \in MergeTargets(req[p].prID)
            THEN MergedRow(pull_requests[id], t)
            ELSE pull_requests[id]]
       /\ req' = [req EXCEPT ![p].now = t,
                               ![p].pc = IF MergeTargets(req[p].prID) = {}
                                         THEN "mg_exists" ELSE "mg_getpr"]
  /\ UNCHANGED <<teams, users, team_members, pr_reviewers, budget>>

\* (A repository that took "no row changed" for "no such PR".)
NoRowsAffected_notFound(exists) == "ErrPRNotFound"

\* if exists { return nil }; return ErrPRNotFound
NoRowsAffected(exists) == IF exists THEN "" ELSE "ErrPRNotFound"

\* rowsAffected == 0: the PR is MERGED already, or there is none.
MergePR_PRExists(p) ==
  /\ req[p].pc = "mg_exists"
  /\ LET err == NoRowsAffected(PRExists(req[p].prID)) IN
     IF err = "" THEN Goto(p, "mg_getpr")
     ELSE Return(p, err, NoRet)
  /\ StoreUnchanged /\ UNCHANGED <<clock, budget>>

\* ------------------------------------------------------ ReassignReviewer
Reassign_Start(p, prID, oldReviewerID) ==
  /\ Receive(p)
  /\ LET r == [Idle EXCEPT !.op = "reassign", !.prID = prID, !.userID = oldReviewerID]
         fail(e) == req' = [req EXCEPT ![p] = [r EXCEPT !.pc = "done", !.err = e]]
     IN IF prID = "" THEN fail("ErrPRIDRequired")
        ELSE IF oldReviewerID = Blank THEN fail("ErrOldReviewerRequired")
        ELSE req' = [req EXCEPT ![p] = [r EXCEPT !.pc = "rs_getpr"]]
  /\ StoreUnchanged /\ UNCHANGED clock

\* GetPRWithReviewers, first statement.
Reassign_GetPR(p) ==
  /\ req[p].pc = "rs_getpr"
  /\ IF ~PRExists(req[p].prID) THEN Return(p, "ErrPRNotFound", NoRet)
     ELSE req' = [req EXCEPT ![p].pc = "rs_getrev", ![p].pr = GetPR(req[p].prID)]
  /\ StoreUnchanged /\ UNCHANGED <<clock, budget>>

\* (A service that skipped the status check would go on to the replacement.)
IsMerged_never(pr) == FALSE

\* if pr.Status == "MERGED"
IsMerged(pr) == pr.Status = "MERGED"

\* (A service that took every old reviewer id for an assigned one.)
IsAssigned_always(oldReviewerID, reviewers) == TRUE

\* oldReviewerAssigned: the loop comparing each reviewer with oldReviewerID
IsAssigned(oldReviewerID, reviewers) == oldReviewerID \in reviewers

\* (A service that looked for the old reviewer before it looked at the status.)
Reassign_GetReviewers_assignedFirst(p) ==
  /\ req[p].pc = "rs_getrev"
  /\ LET reviewers == GetReviewers(req[p].prID) IN
     IF ~IsAssigned(req[p].userID, reviewers) THEN Return(p, "ErrReviewerNotAssigned", NoRet)
     ELSE IF IsMerged(req[p].pr) THEN Return(p, "ErrPRAlreadyMerged", NoRet)
     ELSE req' = [req EXCEPT ![p].pc = "rs_team", ![p].seen = reviewers]
  /\ StoreUnchanged /\ UNCHANGED <<clock, budget>>

\* GetPRWithReviewers, second statement, then the checks on what was read.
Reassign_GetReviewers(p) ==
  /\ req[p].pc = "rs_getrev"
  /\ LET reviewers == GetReviewers(req[p].prID) IN
     IF IsMerged(req[p].pr) THEN Return(p, "ErrPRAlreadyMerged", NoRet)
     ELSE IF ~IsAssigned(req[p].userID, reviewers) THEN Return(p, "ErrReviewerNotAssigned", NoRet)
     ELSE req' = [req EXCEPT ![p].pc = "rs_team", ![p].seen = reviewers]
  /\ StoreUnchanged /\ UNCHANGED <<clock, budget>>

Reassign_GetAuthorTeam(p) ==
  /\ req[p].pc = "rs_team"
  /\ LET t == GetAuthorTeam(req[p].pr.AuthorID) IN
     IF t.err # "" THEN Return(p, t.err, NoRet)
     ELSE req' = [req EXCEPT ![p].pc = "rs_members", ![p].teamName = t.team]
  /\ StoreUnchanged /\ UNCHANGED <<clock, budget>>

Reassign_GetActiveTeamMembers(p) ==
  /\ req[p].pc = "rs_members"
  /\ LET exclude == req[p].seen \cup {req[p].pr.AuthorID}
         availableMembers == GetActiveTeamMembers(req[p].teamName, exclude)
     IN IF availableMembers = {} THEN Return(p, "ErrNoReviewerCandidates", NoRet)
        ELSE \E newReviewer \in selectRandomReviewer(availableMembers) :
               req' = [req EXCEPT ![p].pc = "rs_check", ![p].newReviewer = newReviewer]
  /\ StoreUnchanged /\ UNCHANGED <<clock, budget>>

OldRow(p) == <<req[p].prID, extractUserID(req[p].userID).id>>
NewRow(p) == <<req[p].prID, extractUserID(req[p].newReviewer).id>>

\* ReplaceReviewer: BEGIN; SELECT COUNT(*) FROM pr_reviewers WHERE ... old
ReplaceReviewer_Check(p) ==
  /\ req[p].pc = "rs_check"
  /\ IF ~BagIn(OldRow(p), pr_reviewers) THEN Return(p, "ErrReviewerNotAssigned", NoRet)
     ELSE Goto(p, "rs_delete")
  /\ StoreUnchanged /\ UNCHANGED <<clock, budget>>

\* DELETE FROM pr_reviewers WHERE ... old: waits while another transaction
\* holds the row, and deletes nothing when the row is gone by then.
ReplaceReviewer_Delete(p) ==
  /\ req[p].pc = "rs_delete"
  /\ ~HeldByOther(p, OldRow(p))
  /\ req' = [req EXCEPT ![p].pc = "rs_insert",
                        ![p].deleted = BagIn(OldRow(p), pr_reviewers)]
  /\ StoreUnchanged /\ UNCHANGED <<clock, budget>>

\* INSERT INTO pr_reviewers ... new: waits while another transaction holds
\* the key, and fails when the key is taken (the transaction rolls back).
ReplaceReviewer_Insert(p) ==
  /\ req[p].pc = "rs_insert"
  /\ ~HeldByOther(p, NewRow(p))
  /\ IF ReviewerKeyTaken(NewRow(p)) /\ ~(req[p].deleted /\ NewRow(p) = OldRow(p))
     THEN Return(p, "Internal", NoRet)
     ELSE Goto(p, "rs_commit")
  /\ StoreUnchanged /\ UNCHANGED <<clock, budget>>

\* (A transaction that is left open keeps its rows and never answers.)
ReplaceReviewer_Commit_never(p) == FALSE

\* COMMIT: the transaction's delete and insert become visible together.
ReplaceReviewer_Commit(p) ==
  /\ req[p].pc = "rs_commit"
  /\ pr_reviewers' = (pr_reviewers (-) (IF req[p].deleted THEN SetToBag({OldRow(p)})
                                         ELSE EmptyBag))
                     (+) SetToBag({NewRow(p)})
  /\ Goto(p, "rs_getpr2")
  /\ UNCHANGED <<teams, users, team_members, pull_requests, clock, budget>>

\* ------------------------------------------------------------ next state
\* The steps of the pull-request operations.
PRStep(p) ==
  \/ \E prID \in PRIds \cup {""}, prName \in {"fix", ""}, authorID \in AuthorInputs :
       CreatePR_Start(p, prID, prName, authorID)
  \/ CreatePR_PRExists(p)
  \/ CreatePR_GetAuthorTeam(p)
  \/ CreatePR_GetActiveTeamMembers(p)
  \/ CreatePR_CreatePR(p)
  \/ CreatePR_AddPRReviewers(p)
  \/ PR_GetPR(p)
  \/ PR_GetReviewers(p)
  \/ \E prID \in PRIds \cup {""} : MergePR_Start(p, prID)
  \/ MergePR_MergePR(p)
  \/ MergePR_PRExists(p)
  \/ \E prID \in PRIds \cup {""}, oldReviewerID \in ReviewerInputs :
       Reassign_Start(p, prID, oldReviewerID)
  \/ Reassign_GetPR(p)
  \/ Reassign_GetReviewers(p)
  \/ Reassign_GetAuthorTeam(p)
  \/ Reassign_GetActiveTeamMembers(p)
  \/ ReplaceReviewer_Check(p)
  \/ ReplaceReviewer_Delete(p)
  \/ ReplaceReviewer_Insert(p)
  \/ ReplaceReviewer_Commit(p)

\* The steps of the team and user operations.
DirStep(p) ==
  \/ \E teamName \in TeamNames \cup {""}, members \in MemberLists :
       CreateTeam_Start(p, teamName, members)
  \/ CreateTeam_TeamExists(p)
  \/ CreateTeam_CreateTeam(p)
  \/ CreateTeam_AddTeamMembers(p)
  \/ CreateTeam_GetTeam(p)
  \/ CreateTeam_GetMembers(p)
  \/ \E teamName \in TeamNames \cup {""} : Deactivate_Start(p, teamName)
  \/ Deactivate_TeamExists(p)
  \/ Deactivate_DeactivateTeamUsers(p)
  \/ \E isActive \in BOOLEAN, userID \in UserInputs : SetIsActive_Start(p, isActive, userID)
  \/ SetIsActive_SetIsActive(p)

\* Concurrent pull-request requests over the fixture's directory.
Next == \E p \in Workers : PRStep(p)

Spec == Init /\ [][Next]_vars

\* One request at a time, every operation.
NextSeq == \E p \in {1} : PRStep(p) \/ DirStep(p)

SpecSeq == InitSeq /\ [][NextSeq]_vars

\* Concurrent requests, every operation.
NextAll == \E p \in Workers : PRStep(p) \/ DirStep(p)

SpecAll == InitAll /\ [][NextAll]_vars

\* One request at a time over the directory: teams, members, users.
NextDir ==
  \E p \in {1} :
    \/ \E teamName \in TeamNames \cup {""}, members \in MemberListsDir :
         CreateTeam_Start(p, teamName, members)
    \/ CreateTeam_TeamExists(p)
    \/ CreateTeam_CreateTeam(p)
    \/ CreateTeam_AddTeamMembers(p)
    \/ CreateTeam_GetTeam(p)
    \/ CreateTeam_GetMembers(p)
    \/ \E teamName \in TeamNames \cup {""} : GetTeam_Start(p, teamName)
    \/ \E teamName \in TeamNames, members \in MemberListsDir :
         AddTeamMembers_Start(p, teamName, members)
    \/ AddTeamMembers_Tx(p)
    \/ \E teamName \in TeamNames \cup {""} : Deactivate_Start(p, teamName)
    \/ Deactivate_TeamExists(p)
    \/ Deactivate_DeactivateTeamUsers(p)
    \/ \E isActive \in BOOLEAN, userID \in UserInputsDir :
         SetIsActive_Start(p, isActive, userID)
    \/ SetIsActive_SetIsActive(p)

SpecDir == InitDir /\ [][NextDir]_vars

\* One request at a time: the pull-request operations and a user's reviews.
NextRead ==
  \E p \in {1} :
    \/ PRStep(p)
    \/ \E userID \in UserInputs \cup {<<"u", "0", "1">>} : GetReview_Start(p, userID)
    \/ GetReview_GetReview(p)

SpecRead == InitRead /\ [][NextRead]_vars

\* AddPRReviewers returns an error (the connection drops, the context ends):
\* its transaction rolls back and the service returns the error.
CreatePR_AddPRReviewersFails(p) ==
  /\ req[p].pc = "cr_add"
  /\ Return(p, "Internal", NoRet)
  /\ StoreUnchanged /\ UNCHANGED <<clock, budget>>

\* One pull-request request at a time, with a reviewer write that can fail.
NextFail == \E p \in {1} : PRStep(p) \/ CreatePR_AddPRReviewersFails(p)

SpecFail == InitSeq /\ [][NextFail]_vars

\* One request at a time over two pull-request ids: creates (AddPRReviewers
\* may fail), merges and the statistics.
NextStats ==
  \E p \in {1} :
    \/ \E prID \in PRIdsStats, authorID \in {FormatUserID(1)} :
         CreatePR_Start(p, prID, "fix", authorID)
    \/ CreatePR_PRExists(p)
    \/ CreatePR_GetAuthorTeam(p)
    \/ CreatePR_GetActiveTeamMembers(p)
    \/ CreatePR_CreatePR(p)
    \/ CreatePR_AddPRReviewers(p)
    \/ CreatePR_AddPRReviewersFails(p)
    \/ PR_GetPR(p)
    \/ PR_GetReviewers(p)
    \/ \E prID \in PRIdsStats : MergePR_Start(p, prID)
    \/ MergePR_MergePR(p)
    \/ MergePR_PRExists(p)
    \/ GetPRStats_Start(p)
    \/ GetPRStats_Counts(p)
    \/ GetPRStats_Avg(p)

SpecStats == InitStats /\ [][NextStats]_vars

\* =================================================================== claims
\* C1 -- in every reachable state, after any operation and under any
\* interleaving, the author of a pull request is not one of its reviewers.
C1_AuthorNeverReviewer ==
  \A id \in DOMAIN pull_requests : pull_requests[id].author_id \notin ReviewerKeys(id)

\* C2 -- a (pull request, reviewer) pair is stored at most once: no reachable
\* state, the ones concurrent reassignments produce included, holds a
\* reviewer twice on one pull request.
C2_ReviewerPairOnce ==
  \A row \in BagToSet(pr_reviewers) : CopiesIn(row, pr_reviewers) = 1

\* Two concurrent reassignments chose the same new reviewer, and the key
\* rejected the second INSERT while the pull request has its reviewers.
C2_Witness ==
  \E p \in Workers :
    /\ req[p].pc = "done" /\ req[p].op = "reassign" /\ req[p].err = "Internal"
    /\ Cardinality(ReviewerKeys(req[p].prID)) = 2

\* C3 -- a CreatePRWithReviewers that succeeds has assigned exactly min(2, n)
\* reviewers, n the number of active members of the author's team other than
\* the author; they are distinct, all from that pool, none is the author, and
\* they are the reviewers the call returns.
C3_CreateAssignsMinTwo ==
  \A p \in Workers :
    (req[p].pc = "done" /\ req[p].op = "createPR" /\ req[p].err = "OK") =>
      LET id == req[p].prID
          author == pull_requests[id].author_id
          pool == {k \in DOMAIN users :
                     /\ k # author
                     /\ users[k].is_active
                     /\ users[k].team_name = users[author].team_name}
          assigned == ReviewerKeys(id)
      IN /\ Cardinality(assigned) = Min(2, Cardinality(pool))
         /\ assigned \subseteq pool
         /\ \A k \in assigned : CopiesIn(<<id, k>>, pr_reviewers) = 1
         /\ req[p].ret.reviewers = {FormatUserID(k) : k \in assigned}

\* C4 -- the PR row and its reviewer rows are written atomically: a create
\* that failed at the reviewer write has left neither the PR row nor any
\* reviewer row.
C4_CreateAtomic ==
  \A p \in Workers :
    (req[p].pc = "done" /\ req[p].op = "createPR" /\ req[p].err = "Internal") =>
      /\ ~PRExists(req[p].prID)
      /\ ReviewerKeys(req[p].prID) = {}

\* C5 -- of two overlapping ReassignReviewer calls that name the same old
\* reviewer of the same pull request at most one succeeds: once one has
\* committed its replacement, the other adds no reviewer row and fails with
\* ReviewerNotAssigned.
C5_OneReassignWins ==
  [][\A p, q \in Workers :
       ( /\ p # q
         /\ req[p].op = "reassign" /\ req[q].op = "reassign"
         /\ req[p].prID = req[q].prID /\ req[p].userID = req[q].userID
         /\ req[p].pc \in {"rs_getpr2", "rs_getrev2"}
         /\ req[q].pc \notin {"idle", "done"}
         /\ req'[q] # req[q] )
       => /\ pr_reviewers' = pr_reviewers
          /\ req'[q].pc = "done" => req'[q].err = "ErrReviewerNotAssigned"]_vars

\* C6 -- once a pull request is MERGED its reviewer set never changes, also
\* when the merge commits between a reassignment's status check and its
\* replacement: no step changes the reviewers of a PR that is MERGED and
\* whose creation has returned.
C6_MergedReviewersFrozen ==
  [][\A id \in DOMAIN pull_requests :
       ( /\ pull_requests[id].status = "MERGED"
         /\ \A p \in Workers :
              ~(req[p].op = "createPR" /\ req[p].prID = id /\ ~Free(p)) )
       => ReviewerKeys(id)' = ReviewerKeys(id)]_vars

\* C7 -- a ReassignReviewer call with non-blank arguments on a PR that is
\* MERGED changes no reviewer row and ends with AlreadyMerged, whatever the
\* old reviewer id is.
C7_ReassignOnMergedFails ==
  [][\A p \in Workers :
       ( /\ req[p].op = "reassign"
         /\ req[p].pc \notin {"idle", "done"}
         /\ PRExists(req[p].prID)
         /\ pull_requests[req[p].prID].status = "MERGED" )
       => /\ pr_reviewers' = pr_reviewers
          /\ req'[p].pc = "done" => req'[p].err = "ErrPRAlreadyMerged"]_vars

\* A reassignment of a MERGED pull request has returned AlreadyMerged although
\* the old reviewer it named is not assigned and no active user is left to
\* replace anyone.
C7_Witness ==
  \E p \in Workers :
    /\ req[p].pc = "done" /\ req[p].op = "reassign"
    /\ req[p].err = "ErrPRAlreadyMerged"
    /\ pull_requests[req[p].prID].status = "MERGED"
    /\ req[p].userID \notin GetReviewers(req[p].prID)
    /\ \A k \in DOMAIN users : ~users[k].is_active

\* C8 -- MergePR is idempotent, concurrent calls included: no step changes
\* the row of a PR that is MERGED (its merged timestamp is not overwritten),
\* and a MergePR whose UPDATE ran on a PR that was MERGED by then (by an
\* earlier call, a concurrent one, or itself) ends in success and returns the
\* PR as MERGED with the stored merged timestamp.
C8_MergeIdempotent ==
  /\ [][\A id \in DOMAIN pull_requests :
          pull_requests[id].status = "MERGED" => pull_requests'[id] = pull_requests[id]]_vars
  /\ [][\A p \in Workers :
          ( /\ req[p].op = "merge"
            /\ req[p].pc \notin {"idle", "done"}
            /\ PRExists(req[p].prID)
            /\ pull_requests[req[p].prID].status = "MERGED"
            /\ req[p].now # NULL
            /\ pull_requests[req[p].prID].merged_at <= req[p].now
            /\ req'[p].pc = "done" )
          => /\ req'[p].err = "OK"
             /\ req'[p].ret.pr.Status = "MERGED"
             /\ req'[p].ret.pr.MergedAt # NULL
             /\ req'[p].ret.pr.MergedAt = pull_requests[req[p].prID].merged_at]_vars

\* Two overlapping merges of one pull request have both returned it MERGED,
\* the later UPDATE having run after the stored merged timestamp was taken.
C8_Witness ==
  /\ \A p \in Workers :
       /\ req[p].pc = "done" /\ req[p].op = "merge" /\ req[p].err = "OK"
       /\ req[p].ret.pr.Status = "MERGED"
       /\ req[p].ret.pr.MergedAt = pull_requests[req[p].prID].merged_at
  /\ \E id \in DOMAIN pull_requests :
       pull_requests[id].merged_at # NULL /\ pull_requests[id].merged_at < clock

\* C9 -- a PR is created OPEN with no merged timestamp, its status is OPEN or
\* MERGED, it is MERGED exactly when the merged timestamp is set, and once
\* MERGED neither the status nor the timestamp changes again.
C9_StatusMonotonic ==
  /\ [](\A id \in DOMAIN pull_requests :
          /\ pull_requests[id].status \in {"OPEN", "MERGED"}
          /\ pull_requests[id].status = "MERGED" <=> pull_requests[id].merged_at # NULL)
  /\ [][\A id \in DOMAIN pull_requests' :
          IF id \notin DOMAIN pull_requests
          THEN pull_requests'[id].status = "OPEN" /\ pull_requests'[id].merged_at = NULL
          ELSE pull_requests[id].status = "MERGED" =>
                 /\ pull_requests'[id].status = "MERGED"
                 /\ pull_requests'[id].merged_at = pull_requests[id].merged_at]_vars

\* A pull request has been merged and a later request has run to its end.
C9_Witness ==
  /\ \E id \in DOMAIN pull_requests :
       pull_requests[id].status = "MERGED" /\ pull_requests[id].created_at < pull_requests[id].merged_at
  /\ \E p \in Workers : req[p].pc = "done" /\ req[p].op = "reassign"

\* C10 -- without concurrent writers a ReassignReviewer that succeeds replaces
\* exactly one reviewer: the old id leaves the set and one new id enters it,
\* the new id being an active user of the author's team that is neither the
\* old reviewer, nor the author, nor a reviewer already; the size of the set
\* is unchanged, and the returned list and new id are what the store holds.
C10_ReassignReplacesOne ==
  /\ [][\A p \in Workers :
          (req[p].pc = "rs_commit" /\ req'[p].pc = "rs_getpr2") =>
            LET id == req[p].prID
                old == extractUserID(req[p].userID).id
                new == extractUserID(req[p].newReviewer).id
                author == pull_requests[id].author_id
                before == ReviewerKeys(id)
                after == ReviewerKeys(id)'
            IN /\ old \in before /\ new \notin before
               /\ new # old /\ new # author
               /\ new \in DOMAIN users /\ users[new].is_active
               /\ users[new].team_name = users[author].team_name
               /\ after = (before \ {old}) \cup {new}
               /\ Cardinality(after) = Cardinality(before)]_vars
  /\ [](\A p \in Workers :
          (req[p].pc = "done" /\ req[p].op = "reassign" /\ req[p].err = "OK") =>
            /\ req[p].ret.reviewers = GetReviewers(req[p].prID)
            /\ req[p].ret.replaced_by \in req[p].ret.reviewers
            /\ req[p].userID \notin req[p].ret.reviewers
            /\ \A k \in ReviewerKeys(req[p].prID) :
                 CopiesIn(<<req[p].prID, k>>, pr_reviewers) = 1)

\* A reassignment has succeeded and returned its replacement.
C10_Witness ==
  \E p \in Workers :
    /\ req[p].pc = "done" /\ req[p].op = "reassign" /\ req[p].err = "OK"
    /\ req[p].ret.replaced_by # Blank
    /\ Cardinality(req[p].ret.reviewers) = 2

\* C11 -- whenever a reviewer row is committed for a PR, by a create or by a
\* reassignment, its user is at that moment an active user whose team is the
\* team of the PR's author, also when a team or activity change runs between
\* the read of the candidate pool and the write.
C11_ReviewerEligibleAtCommit ==
  [][\A row \in BagToSet(pr_reviewers') \ BagToSet(pr_reviewers) :
       LET author == pull_requests[row[1]].author_id IN
       /\ row[2] \in DOMAIN users
       /\ users[row[2]].is_active
       /\ users[row[2]].team_name = users[author].team_name]_vars

\* C12 -- team and activity changes leave existing assignments untouched: no
\* step of deactivateAllMembers, setUserActive or createTeam (which may move
\* a reviewer or the author to another team) changes a PR row or a reviewer
\* row.
C12_DirectoryKeepsAssignments ==
  [][(\E p \in Workers :
        /\ req'[p] # req[p]
        /\ req'[p].op \in {"createTeam", "deactivate", "setActive"})
     => /\ pull_requests' = pull_requests
        /\ pr_reviewers' = pr_reviewers]_vars

\* A PR still has its two reviewers although one of them was moved to another
\* team and then deactivated there.
C12_Witness ==
  \E id \in DOMAIN pull_requests :
    /\ Cardinality(ReviewerKeys(id)) = 2
    /\ \E k \in ReviewerKeys(id) :
         /\ users[k].team_name # users[pull_requests[id].author_id].team_name
         /\ ~users[k].is_active
    /\ \E p \in Workers : req[p].pc = "done" /\ req[p].op = "deactivate" /\ req[p].err = "OK"

\* C13 -- a CreatePRWithReviewers for a new PR id by an existing author whose
\* team has no active user other than the author never reaches a write: it
\* ends with NoReviewerCandidates, and no PR row and no reviewer row is
\* stored.
C13_CreateWithoutCandidates ==
  \A p \in Workers :
    LET author == extractUserID(req[p].userID) IN
    ( /\ req[p].op = "createPR"
      /\ author.ok /\ author.id \in DOMAIN users
      /\ \A k \in DOMAIN users :
           (users[k].is_active /\ users[k].team_name = users[author.id].team_name)
             => k = author.id )
    => /\ req[p].pc \notin {"cr_insert", "cr_add", "cr_getpr", "cr_getrev"}
       /\ req[p].pc = "done" =>
            /\ req[p].err \in {"ErrPRIDRequired", "ErrPRNameRequired", "ErrPRExists",
                               "ErrNoReviewerCandidates"}
            /\ req[p].err = "ErrNoReviewerCandidates" =>
                 ~PRExists(req[p].prID) /\ ReviewerKeys(req[p].prID) = {}

\* C14 -- a PR id is created at most once and a duplicate is reported as
\* AlreadyExists, whether the two creates run one after the other or
\* overlap: a create by an existing author that has not written its PR row
\* while a PR with its id is stored writes nothing and, when it ends, ends
\* with PRExists; and the stored PR keeps the name, author and creation time
\* of the call that wrote it.
C14_PRIdCreatedOnce ==
  /\ [][\A p \in Workers :
          LET author == extractUserID(req[p].userID) IN
          ( /\ req[p].op = "createPR"
            /\ req[p].pc \in {"cr_exists", "cr_team", "cr_members", "cr_insert"}
            /\ req[p].prID \in DOMAIN pull_requests
            /\ author.ok /\ author.id \in DOMAIN users
            /\ req'[p] # req[p] )
          => /\ pull_requests' = pull_requests
             /\ pr_reviewers' = pr_reviewers
             /\ req'[p].pc = "done" => req'[p].err = "ErrPRExists"]_vars
  /\ [][\A id \in DOMAIN pull_requests :
          /\ pull_requests'[id].pull_request_name = pull_requests[id].pull_request_name
          /\ pull_requests'[id].author_id = pull_requests[id].author_id
          /\ pull_requests'[id].created_at = pull_requests[id].created_at]_vars

\* C15 -- a create with a non-blank author id that names no existing user,
\* whatever the format of the id, and a PR id that is not stored ends with
\* AuthorNotFound and leaves no PR row and no reviewer row for that id.
C15_UnknownAuthorNotFound ==
  \A p \in Workers :
    LET author == extractUserID(req[p].userID) IN
    ( /\ req[p].op = "createPR"
      /\ req[p].pc = "done"
      /\ req[p].userID # Blank
      /\ ~(author.ok /\ author.id \in DOMAIN users)
      /\ req[p].err \notin {"ErrPRIDRequired", "ErrPRNameRequired", "ErrPRExists"} )
    => /\ req[p].err = "ErrPRAuthorNotFound"
       /\ ~PRExists(req[p].prID)
       /\ ReviewerKeys(req[p].prID) = {}

\* C16 -- a ReassignReviewer call with non-blank arguments that has not yet
\* committed a replacement, on a stored OPEN PR whose reviewers do not include
\* the old reviewer id, changes no reviewer row and no PR row and ends with
\* ReviewerNotAssigned.
C16_ReassignNotAssignedFails ==
  [][\A p \in Workers :
       ( /\ req[p].op = "reassign"
         /\ req[p].pc \in {"rs_getpr", "rs_getrev", "rs_team", "rs_members",
                          "rs_check", "rs_delete", "rs_insert", "rs_commit"}
         /\ PRExists(req[p].prID)
         /\ pull_requests[req[p].prID].status = "OPEN"
         /\ req[p].userID \notin GetReviewers(req[p].prID) )
       => /\ pr_reviewers' = pr_reviewers
          /\ pull_requests' = pull_requests
          /\ req'[p].pc = "done" => req'[p].err = "ErrReviewerNotAssigned"]_vars

\* A reassignment of an OPEN pull request that has reviewers has returned
\* ReviewerNotAssigned for a user that is not one of them, at a time when no
\* active user was left to take over.
C16_Witness ==
  \E p \in Workers :
    /\ req[p].pc = "done" /\ req[p].op = "reassign"
    /\ req[p].err = "ErrReviewerNotAssigned"
    /\ PRExists(req[p].prID)
    /\ pull_requests[req[p].prID].status = "OPEN"
    /\ ReviewerKeys(req[p].prID) # {}
    /\ req[p].userID \notin GetReviewers(req[p].prID)
    /\ \A k \in DOMAIN users : ~users[k].is_active

\* C17 -- a ReassignReviewer call that has not yet committed a replacement,
\* for an assigned reviewer of a stored OPEN PR, at a time when every active
\* user of the team of the PR's author is the author or a reviewer of the PR,
\* changes no reviewer row and no PR row and ends with NoReviewerCandidates.
C17_ReassignWithoutCandidates ==
  [][\A p \in Workers :
       ( /\ req[p].op = "reassign"
         /\ req[p].pc \in {"rs_getpr", "rs_getrev", "rs_team", "rs_members",
                          "rs_check", "rs_delete", "rs_insert", "rs_commit"}
         /\ PRExists(req[p].prID)
         /\ pull_requests[req[p].prID].status = "OPEN"
         /\ req[p].userID \in GetReviewers(req[p].prID)
         /\ LET author == pull_requests[req[p].prID].author_id IN
            \A k \in DOMAIN users :
              (users[k].is_active /\ users[k].team_name = users[author].team_name)
              => k \in ReviewerKeys(req[p].prID) \cup {author} )
       => /\ pr_reviewers' = pr_reviewers
          /\ pull_requests' = pull_requests
          /\ req'[p].pc = "done" => req'[p].err = "ErrNoReviewerCandidates"]_vars

\* A reassignment has returned NoReviewerCandidates for an assigned reviewer
\* of an OPEN pull request whose author and reviewers are all active: the only
\* active users of the team are the ones the pool excludes.
C17_Witness ==
  \E p \in Workers :
    /\ req[p].pc = "done" /\ req[p].op = "reassign"
    /\ req[p].err = "ErrNoReviewerCandidates"
    /\ PRExists(req[p].prID)
    /\ pull_requests[req[p].prID].status = "OPEN"
    /\ req[p].userID \in GetReviewers(req[p].prID)
    /\ users[pull_requests[req[p].prID].author_id].is_active
    /\ Cardinality(ReviewerKeys(req[p].prID)) = 2
    /\ \A k \in ReviewerKeys(req[p].prID) : users[k].is_active

\* C18 -- MergePR reports NotFound exactly for a PR that is not stored: a
\* step of a MergePR call with a non-blank id taken while no PR with that id
\* is stored changes no PR row, and ends the call with NotFound when it is
\* the step that looks the PR up; and no MergePR call ends with NotFound on a
\* step taken while the PR is stored.
C18_MergeNotFound ==
  [][\A p \in Workers :
       ( /\ req[p].op = "merge"
         /\ req[p].pc \notin {"idle", "done"}
         /\ req'[p] # req[p] )
       => IF req[p].prID \notin DOMAIN pull_requests
          THEN /\ pull_requests' = pull_requests
               /\ pr_reviewers' = pr_reviewers
               /\ req[p].pc = "mg_update" => req'[p].pc = "mg_exists"
               /\ req[p].pc = "mg_exists" =>
                    req'[p].pc = "done" /\ req'[p].err = "ErrPRNotFound"
          ELSE ~(req'[p].pc = "done" /\ req'[p].err = "ErrPRNotFound")]_vars

\* One MergePR has returned NotFound, and a later MergePR of the same id,
\* created in between, has returned success with the PR stored as MERGED.
C18_Witness ==
  \E p, q \in Workers :
    /\ req[p].pc = "done" /\ req[p].op = "merge" /\ req[p].err = "ErrPRNotFound"
    /\ req[q].pc = "done" /\ req[q].op = "merge" /\ req[q].err = "OK"
    /\ req[q].prID = req[p].prID
    /\ req[q].prID \in DOMAIN pull_requests
    /\ pull_requests[req[q].prID].status = "MERGED"

\* C19 -- an operation that ends in an error leaves nothing behind: the step
\* that ends a call with an error changes no table, and when a createTeam
\* call ends with an error other than TeamExists (a member whose user id is
\* malformed, for one) the store holds no team row, no user row and no
\* membership row for the team it named.
C19_ErrorLeavesNoState ==
  [][\A p \in Workers :
       ( /\ req[p].pc \notin {"idle", "done"}
         /\ req'[p].pc = "done"
         /\ req'[p].err # "OK" )
       => /\ <<teams, users, team_members, pull_requests, pr_reviewers>>' =
               <<teams, users, team_members, pull_requests, pr_reviewers>>
          /\ (req[p].op = "createTeam" /\ req'[p].err # "ErrTeamExists")
             => /\ req[p].teamName \notin teams'
                /\ \A k \in DOMAIN users' : users'[k].team_name # req[p].teamName
                /\ \A row \in team_members' : row[1] # req[p].teamName]_vars

\* C20 -- every user belongs to exactly one team in every state: the member
\* list of a team, as GetTeamWithMembers returns it, names a user exactly
\* when that team is the user's team, so that a user re-added through
\* another team is listed there and no longer in its former team, and no
\* user id is in the member lists of two teams.
C20_UserInOneTeam ==
  \A k \in DOMAIN users : \A t \in teams :
    (\E m \in GetTeamMembers(t) : m.UserID = FormatUserID(k))
    <=> t = users[k].team_name

\* C21 -- a DeactivateTeamUsers call that succeeds returns the number of
\* users of the named team that were active just before it and leaves none of
\* them active, so that a second call with no activation and no re-adding in
\* between returns 0.
C21_DeactivateCount ==
  [][\A p \in Workers :
       ( /\ req[p].op = "deactivate"
         /\ req[p].pc \notin {"idle", "done"}
         /\ req'[p].pc = "done"
         /\ req'[p].err = "OK" )
       => /\ req[p].teamName \in teams
          /\ req'[p].ret.count =
               Cardinality({k \in DOMAIN users :
                              users[k].team_name = req[p].teamName /\ users[k].is_active})
          /\ \A k \in DOMAIN users' :
               users'[k].team_name = req[p].teamName => ~users'[k].is_active]_vars

\* A deactivation of a team that has users, all of them inactive already, has
\* returned 0.
C21_Witness ==
  \E p \in Workers :
    /\ req[p].pc = "done" /\ req[p].op = "deactivate" /\ req[p].err = "OK"
    /\ req[p].ret.count = 0
    /\ \E t \in teams :
         /\ Cardinality({k \in DOMAIN users : users[k].team_name = t}) = MaxUser
         /\ \A k \in DOMAIN users : ~users[k].is_active

\* C22 -- when a DeactivateTeamUsers call succeeds, every member that
\* GetTeamWithMembers lists for the team (the users joined to the team's
\* membership rows) is inactive, also after teams were created that re-added
\* users of other teams, and the active flag of every user that is not in
\* that list is what it was before.
C22_DeactivateCoversMembers ==
  [][\A p \in Workers :
       ( /\ req[p].op = "deactivate"
         /\ req[p].pc \notin {"idle", "done"}
         /\ req'[p].pc = "done"
         /\ req'[p].err = "OK" )
       => \A k \in DOMAIN users' :
            IF <<req[p].teamName, k>> \in team_members'
            THEN ~users'[k].is_active
            ELSE k \in DOMAIN users /\ users'[k].is_active = users[k].is_active]_vars

\* C23 -- a DeactivateTeamUsers or GetTeamWithMembers call with a non-blank
\* name that no stored team has ends, on its first step after validation,
\* with TeamNotFound, and changes no user's active flag nor any other row.
C23_TeamNotFound ==
  [][\A p \in Workers :
       ( /\ req[p].op \in {"deactivate", "getTeam"}
         /\ req[p].pc \notin {"idle", "done"}
         /\ req[p].teamName \notin teams
         /\ req'[p] # req[p] )
       => /\ req'[p].pc = "done"
          /\ req'[p].err = "ErrTeamNotFound"
          /\ <<teams, users, team_members, pull_requests, pr_reviewers>>' =
               <<teams, users, team_members, pull_requests, pr_reviewers>>]_vars

\* A deactivation has ended with TeamNotFound while a team name is not stored
\* and active users exist.
C23_Witness ==
  \E p \in Workers :
    /\ req[p].pc = "done" /\ req[p].op = "deactivate"
    /\ req[p].err = "ErrTeamNotFound"
    /\ TeamNames \ teams # {}
    /\ \E k \in DOMAIN users : users[k].is_active

\* C24 -- a team name is created at most once and a duplicate is reported as
\* TeamExists, whether the two requests run one after the other or overlap:
\* a CreateTeamWithMembers call that has not inserted its team row while a
\* team with its name is stored ends on its next step, with TeamExists, and
\* changes no row (it upserts, moves and re-activates no user and adds no
\* membership).
C24_TeamCreatedOnce ==
  [][\A p \in Workers :
       ( /\ req[p].op = "createTeam"
         /\ req[p].pc \in {"ct_exists", "ct_create"}
         /\ req[p].teamName \in teams
         /\ req'[p] # req[p] )
       => /\ req'[p].pc = "done"
          /\ req'[p].err = "ErrTeamExists"
          /\ <<teams, users, team_members, pull_requests, pr_reviewers>>' =
               <<teams, users, team_members, pull_requests, pr_reviewers>>]_vars

\* C25 -- a successful CreateTeamWithMembers returns exactly the supplied
\* members: once its AddTeamMembers has committed, the members the store lists
\* for the new team are the supplied user ids, each with the supplied name and
\* active flag; and a successful CreateTeamWithMembers or GetTeamWithMembers
\* returns the members the store lists for the team and changes nothing, so a
\* following GetTeamWithMembers returns the same list.
C25_CreateTeamReturnsMembers ==
  /\ [][\A p \in Workers :
          ( /\ req[p].op = "createTeam"
            /\ req[p].pc = "ct_add"
            /\ req'[p].pc = "ct_getteam" )
          => {[UserID |-> FormatUserID(k), Username |-> users'[k].username,
               TeamName |-> users'[k].team_name, IsActive |-> users'[k].is_active] :
                k \in {u \in DOMAIN users' : <<req[p].teamName, u>> \in team_members'}}
             = {[UserID |-> req[p].members[i].UserID,
                 Username |-> req[p].members[i].Username,
                 TeamName |-> req[p].teamName,
                 IsActive |-> req[p].members[i].IsActive] :
                  i \in 1..Len(req[p].members)}]_vars
  /\ [][\A p \in Workers :
          ( /\ req[p].op \in {"createTeam", "getTeam"}
            /\ req[p].pc \notin {"idle", "done"}
            /\ req'[p].pc = "done"
            /\ req'[p].err = "OK" )
          => /\ req'[p].ret.members = GetTeamMembers(req[p].teamName)
             /\ <<teams, users, team_members>>' = <<teams, users, team_members>>]_vars

\* C26 -- AddTeamMembers is an idempotent upsert, the last write wins: when
\* it commits (called on its own or by CreateTeamWithMembers), every user it
\* named has the name and the active flag of the call and the call's team,
\* and is a member of that team; every other user row and every other
\* membership row is as before; so the same call applied again changes
\* nothing, and a deactivated user re-added as active is active.
C26_AddMembersUpsert ==
  [][\A p \in Workers :
       ( \/ /\ req[p].pc = "am_tx"
            /\ req'[p].pc = "done" /\ req'[p].err = "OK"
         \/ /\ req[p].pc = "ct_add"
            /\ req'[p].pc = "ct_getteam" )
       => LET members == req[p].members
              named == {extractUserID(members[i].UserID).id : i \in 1..Len(members)}
          IN /\ \A i \in 1..Len(members) :
                  LET k == extractUserID(members[i].UserID).id IN
                  /\ k \in DOMAIN users'
                  /\ users'[k] = [username |-> members[i].Username,
                                  team_name |-> req[p].teamName,
                                  is_active |-> members[i].IsActive]
             /\ DOMAIN users' = DOMAIN users \cup named
             /\ \A k \in DOMAIN users \ named : users'[k] = users[k]
             /\ team_members' = team_members \cup {<<req[p].teamName, k>> : k \in named}
             /\ UpsertUsers(users', req[p].teamName, members) = users']_vars

\* AddTeamMembers, called on its own, has renamed user 1 and made it active
\* again after its whole team was deactivated.
C26_Witness ==
  \E p \in Workers :
    /\ req[p].pc = "done" /\ req[p].op = "addMembers" /\ req[p].err = "OK"
    /\ users[1].username = "alias" /\ users[1].is_active
    /\ \A k \in DOMAIN users \ {1} : ~users[k].is_active

C28_SetActiveFrame ==
  [][\A p \in Workers :
       ( /\ req[p].op = "setActive"
         /\ req[p].pc = "su_update"
         /\ req'[p] # req[p] )
       => LET id == Atoi(Tail(req[p].userID)).id IN
          /\ req'[p].pc = "done"
          /\ <<teams, team_members, pull_requests, pr_reviewers>>' =
               <<teams, team_members, pull_requests, pr_reviewers>>
          /\ IF id \in DOMAIN users
             THEN /\ req'[p].err = "OK"
                  /\ DOMAIN users' = DOMAIN users
                  /\ \A k \in DOMAIN users :
                       users'[k] = IF k = id
                                   THEN [username |-> users[k].username,
                                         team_name |-> users[k].team_name,
                                         is_active |-> req[p].isActive]
                                   ELSE users[k]
                  /\ req'[p].ret.members =
                       {[UserID |-> FormatUserID(id), Username |-> users[id].username,
                         TeamName |-> users[id].team_name, IsActive |-> req[p].isActive]}
             ELSE /\ req'[p].err = "ErrUserNotFound"
                  /\ users' = users]_vars

\* SetUserActiveStatus has returned a user as inactive, the user is inactive
\* in the store and another user is still active.
C28_Witness ==
  \E p \in Workers :
    /\ req[p].op = "setActive" /\ req[p].pc = "done" /\ req[p].err = "OK"
    /\ \E u \in req[p].ret.members :
         /\ ~u.IsActive
         /\ ~users[extractUserID(u.UserID).id].is_active
    /\ \E k \in DOMAIN users : users[k].is_active

\* C29 -- GetPRStats is a pure read with consistent counts: no step of the
\* call changes a team, user, membership, PR or reviewer row, and the call
\* returns totalPRs = the number of stored PRs = openPRs + mergedPRs, with
\* openPRs and mergedPRs the numbers of PRs whose status is OPEN and MERGED.
C29_StatsCounts ==
  [][\A p \in Workers :
       (req'[p].op = "getStats" /\ req'[p] # req[p])
       => /\ <<teams, users, team_members, pull_requests, pr_reviewers>>' =
               <<teams, users, team_members, pull_requests, pr_reviewers>>
          /\ req'[p].pc = "done" =>
               LET stats == req'[p].ret.stats IN
               /\ req'[p].err = "OK"
               /\ stats.TotalPRs = Cardinality(DOMAIN pull_requests)
               /\ stats.TotalPRs = stats.OpenPRs + stats.MergedPRs
               /\ stats.OpenPRs =
                    Cardinality({id \in DOMAIN pull_requests :
                                   pull_requests[id].status = "OPEN"})
               /\ stats.MergedPRs =
                    Cardinality({id \in DOMAIN pull_requests :
                                   pull_requests[id].status = "MERGED"})]_vars

\* GetPRStats has returned one open and one merged pull request of two.
C29_Witness ==
  \E p \in Workers :
    /\ req[p].op = "getStats" /\ req[p].pc = "done" /\ req[p].err = "OK"
    /\ req[p].ret.stats.TotalPRs = 2
    /\ req[p].ret.stats.OpenPRs = 1
    /\ req[p].ret.stats.MergedPRs = 1

\* C30 -- the average GetPRStats returns is 0 when no PR is stored, and
\* otherwise the number of reviewer rows divided by the number of stored PRs,
\* the PRs without a reviewer row included in the divisor.
C30_StatsAverage ==
  [][\A p \in Workers :
       (req[p].op = "getStats" /\ req[p].pc = "st_avg" /\ req'[p].pc = "done")
       => LET avg == req'[p].ret.stats.AvgReviewersPerPR
              prs == Cardinality(DOMAIN pull_requests)
              rows == BagCardinality(pr_reviewers)
          IN /\ avg.den > 0
             /\ IF prs = 0 THEN avg.num = 0
                ELSE avg.num * prs = rows * avg.den]_vars

\* GetPRStats has returned an average of one reviewer per pull request for
\* two stored pull requests, one with two reviewers and one with none.
C30_Witness ==
  \E p \in Workers :
    /\ req[p].op = "getStats" /\ req[p].pc = "done" /\ req[p].err = "OK"
    /\ Cardinality(DOMAIN pull_requests) = 2
    /\ \E id \in DOMAIN pull_requests : ReviewerKeys(id) = {}
    /\ \E id \in DOMAIN pull_requests : Cardinality(ReviewerKeys(id)) = 2
    /\ req[p].ret.stats.AvgReviewersPerPR.num = req[p].ret.stats.AvgReviewersPerPR.den

\* ------------------------------------------------------------- liveness
NumWorkersLive == 3

MaxRequestsLive == 4

WorkersLive == 1..NumWorkersLive

\* The old reviewers the reassignments name, in the order the requests arrive.
ReviewerInputsLive == <<FormatUserID(2), FormatUserID(2), FormatUserID(3), FormatUserID(4)>>

\* The old reviewer the next reassignment names.
NextReviewerInputLive ==
  ReviewerInputsLive[((MaxRequestsLive - budget) % Len(ReviewerInputsLive)) + 1]

\* The store after u1 created "PR-1", users 2 and 4 were assigned to it and
\* the last user was deactivated.
InitLive ==
  /\ teams = {"Backend"}
  /\ users = [k \in Keys |-> [username |-> "name", team_name |-> "Backend",
                              is_active |-> k # MaxUser]]
  /\ team_members = {<<"Backend", k>> : k \in Keys}
  /\ pull_requests = [id \in {"PR-1"} |->
                        [pull_request_name |-> "fix", author_id |-> 1,
                         status |-> "OPEN", created_at |-> 1, merged_at |-> NULL]]
  /\ pr_reviewers = SetToBag({<<"PR-1", 2>>, <<"PR-1", 4>>})
  /\ clock = 1
  /\ req = [p \in WorkersLive |-> Idle]
  /\ budget = MaxRequestsLive

\* The statement of worker p waits for a row that the open transaction of
\* worker q holds.
WaitsFor(p, q) ==
  /\ p # q
  /\ \/ req[p].pc = "rs_delete" /\ OldRow(p) \in HeldRows(q)
     \/ req[p].pc = "rs_insert" /\ NewRow(p) \in HeldRows(q)

\* Worker p is on a cycle of waiting transactions.
Deadlocked(p) ==
  \E q \in DOMAIN req :
    /\ WaitsFor(p, q)
    /\ \/ WaitsFor(q, p)
       \/ \E r \in DOMAIN req : WaitsFor(q, r) /\ WaitsFor(r, p)

\* tx.Exec returns the store's "deadlock detected" error: the store ends a
\* transaction that waits on a cycle, the deferred Rollback runs and the
\* service returns the error.
ReplaceReviewer_Deadlock(p) ==
  /\ req[p].pc \in {"rs_delete", "rs_insert"}
  /\ Deadlocked(p)
  /\ Return(p, "Internal", NoRet)
  /\ StoreUnchanged /\ UNCHANGED <<clock, budget>>

\* The steps a request of worker p takes once it was received.
RunLive(p) ==
  \/ CreatePR_PRExists(p)
  \/ PR_GetPR(p)
  \/ PR_GetReviewers(p)
  \/ MergePR_MergePR(p)
  \/ MergePR_PRExists(p)
  \/ Reassign_GetPR(p)
  \/ Reassign_GetReviewers(p)
  \/ Reassign_GetAuthorTeam(p)
  \/ Reassign_GetActiveTeamMembers(p)
  \/ ReplaceReviewer_Check(p)
  \/ ReplaceReviewer_Delete(p)
  \/ ReplaceReviewer_Insert(p)
  \/ ReplaceReviewer_Commit(p)
  \/ ReplaceReviewer_Deadlock(p)

\* Concurrent creations, merges and reassignments on one pull request.
NextLive ==
  \E p \in WorkersLive :
    \/ CreatePR_Start(p, "PR-1", "fix", FormatUserID(1))
    \/ MergePR_Start(p, "PR-1")
    \/ Reassign_Start(p, "PR-1", NextReviewerInputLive)
    \/ RunLive(p)

\* Every goroutine serving a request keeps running, and the store serves
\* every statement that does not wait for a lock.
SpecLive ==
  InitLive /\ [][NextLive]_vars /\ \A p \in WorkersLive : WF_vars(RunLive(p))

\* C31 -- Under fair scheduling every started operation eventually returns a
\* success or an error: whatever the interleaving of concurrent creations,
\* merges and reassignments on one pull request (two reassignments that pick
\* the same replacement included), no request waits forever.
C31_EveryOperationReturns ==
  \A p \in WorkersLive : (req[p].pc \notin {"idle", "done"}) ~> (req[p].pc = "done")

\* Two reassignments picked the same replacement: one holds the new row in
\* its open transaction and the INSERT of the other waits for it.
C31_Witness ==
  \E p, q \in WorkersLive :
    /\ p # q
    /\ req[p].pc = "rs_insert" /\ req[q].pc = "rs_commit"
    /\ req[p].newReviewer = req[q].newReviewer
    /\ HeldByOther(p, NewRow(p))

\* C32 -- Selecting MaxReviewers reviewers from the pool P a creation reads
\* gives a list without duplicates of exactly min(MaxReviewers, |P|) elements
\* of P (all of P when |P| <= MaxReviewers), and every subset of P of that
\* size is a possible result; selecting one reviewer from the non-empty pool
\* a reassignment reads gives an element of P, and every element of P is a
\* possible result.
C32_SelectionSound ==
  \A p \in Workers :
    /\ req[p].pc = "cr_members" =>
         LET P == GetActiveTeamMembers(req[p].teamName, {req[p].userID})
             n == Min(MaxReviewers, Cardinality(P))
             results == selectRandomReviewers(P, MaxReviewers)
         IN /\ \A r \in results :
                 /\ Len(r) = n
                 /\ SeqToSet(r) \subseteq P
                 /\ Cardinality(SeqToSet(r)) = n
            /\ \A S \in SUBSET P :
                 Cardinality(S) = n => \E r \in results : SeqToSet(r) = S
    /\ req[p].pc = "rs_members" =>
         LET P == GetActiveTeamMembers(req[p].teamName,
                                       req[p].seen \cup {req[p].pr.AuthorID})
         IN P # {} => selectRandomReviewer(P) = P

\* A creation is about to select from a pool of at least one and at most
\* MaxReviewers candidates.
C32_Witness ==
  \E p \in Workers :
    /\ req[p].pc = "cr_members"
    /\ Cardinality(GetActiveTeamMembers(req[p].teamName, {req[p].userID}))
         \in 1..MaxReviewers

\* C34 -- With one request at a time, a ReassignReviewer call that fails
\* returns the first failing check in the order: blank prId, blank
\* oldReviewerId, PR absent, PR merged, old reviewer not assigned, author
\* unknown, no candidate; and a reassignment writes to the store only when
\* none of these checks fails.
C34_ReassignErrorOrder ==
  [][\A p \in {1} :
       LET prID == req'[p].prID
           oldReviewerID == req'[p].userID
           pr == pull_requests[prID]
           reviewers == GetReviewers(prID)
           team == GetAuthorTeam(FormatUserID(pr.author_id))
           first ==
             IF prID = "" THEN "ErrPRIDRequired"
             ELSE IF oldReviewerID = Blank THEN "ErrOldReviewerRequired"
             ELSE IF prID \notin DOMAIN pull_requests THEN "ErrPRNotFound"
             ELSE IF pr.status = "MERGED" THEN "ErrPRAlreadyMerged"
             ELSE IF oldReviewerID \notin reviewers THEN "ErrReviewerNotAssigned"
             ELSE IF team.err # "" THEN "ErrPRAuthorNotFound"
             ELSE IF GetActiveTeamMembers(team.team,
                       reviewers \cup {FormatUserID(pr.author_id)}) = {}
             THEN "ErrNoReviewerCandidates"
             ELSE ""
       IN /\ ( /\ req'[p].op = "reassign" /\ req'[p].pc = "done"
               /\ req'[p] # req[p]
               /\ req[p].pc \in {"idle", "done", "rs_getpr", "rs_getrev", "rs_team",
                                  "rs_members", "rs_check", "rs_delete", "rs_insert",
                                  "rs_commit"} )
             => first # "" /\ req'[p].err = first
          /\ ( /\ req[p].op = "reassign" /\ req[p].pc # "done"
               /\ <<teams, users, team_members, pull_requests, pr_reviewers>>' #
                    <<teams, users, team_members, pull_requests, pr_reviewers>> )
             => first = ""]_vars

\* A reassignment on a merged pull request named a user who is not one of its
\* reviewers, and the answer was the error of the earlier check.
C34_Witness ==
  \E p \in {1} :
    /\ req[p].op = "reassign" /\ req[p].pc = "done"
    /\ req[p].err = "ErrPRAlreadyMerged"
    /\ req[p].userID \notin GetReviewers(req[p].prID)

\* C35 -- In every reachable state every pull request has at most
\* MaxReviewers reviewers, also when two ReassignReviewer calls on the same
\* pull request run concurrently.
C35_AtMostTwoReviewers ==
  \A id \in DOMAIN pull_requests : Cardinality(ReviewerKeys(id)) <= MaxReviewers

\* C36 -- No operation observes a stored pull request without reviewers:
\* the pull request a MergePR call read and returned, while other requests
\* were in flight, has at least one reviewer.
C36_NoEmptyReviewerSetObserved ==
  \A p \in Workers :
    (req[p].pc = "done" /\ req[p].op = "merge" /\ req[p].err = "OK") =>
      req[p].ret.reviewers # {}

\* ------------------------------------------- directory and pull requests
MaxRequestsRef == 3

InitRef == Fixture(MaxRequestsRef)

\* One request at a time: the directory operations with members the store
\* does not hold yet, and the pull-request operations.
NextRef == NextDir \/ (\E p \in {1} : PRStep(p))

SpecRef == InitRef /\ [][NextRef]_vars

\* C37 -- Nothing is deleted: across every step the sets of team names, user
\* ids and pull request ids only grow, and in every reachable state each
\* user's team is an existing team, each pull request's author is an existing
\* user and each reviewer is an existing user.
C37_NothingDeleted ==
  /\ [](/\ \A k \in DOMAIN users : users[k].team_name \in teams
        /\ \A id \in DOMAIN pull_requests :
             pull_requests[id].author_id \in DOMAIN users
        /\ \A row \in BagToSet(pr_reviewers) : row[2] \in DOMAIN users)
  /\ [][/\ teams \subseteq teams'
        /\ DOMAIN users \subseteq DOMAIN users'
        /\ DOMAIN pull_requests \subseteq DOMAIN pull_requests']_vars

\* A team and a user were added, and the new user is the author of a pull
\* request that has reviewers.
C37_Witness ==
  /\ teams # {"Backend"}
  /\ \E id \in DOMAIN pull_requests :
       /\ pull_requests[id].author_id \notin Keys
       /\ ReviewerKeys(id) # {}

\* ------------------------------------------------ two pull requests
MaxRequestsFrame == 4

InitFrame == Fixture(MaxRequestsFrame)

\* One request at a time over two pull-request ids: creations, merges and
\* reassignments.
NextFrame ==
  \E p \in {1} :
    \/ \E prID \in PRIdsStats, prName \in {"fix", "feat"} :
         CreatePR_Start(p, prID, prName, FormatUserID(1))
    \/ CreatePR_PRExists(p)
    \/ CreatePR_GetAuthorTeam(p)
    \/ CreatePR_GetActiveTeamMembers(p)
    \/ CreatePR_CreatePR(p)
    \/ CreatePR_AddPRReviewers(p)
    \/ PR_GetPR(p)
    \/ PR_GetReviewers(p)
    \/ \E prID \in PRIdsStats : MergePR_Start(p, prID)
    \/ MergePR_MergePR(p)
    \/ MergePR_PRExists(p)
    \/ \E prID \in PRIdsStats, oldReviewerID \in ReviewerInputs :
         Reassign_Start(p, prID, oldReviewerID)
    \/ Reassign_GetPR(p)
    \/ Reassign_GetReviewers(p)
    \/ Reassign_GetAuthorTeam(p)
    \/ Reassign_GetActiveTeamMembers(p)
    \/ ReplaceReviewer_Check(p)
    \/ ReplaceReviewer_Delete(p)
    \/ ReplaceReviewer_Insert(p)
    \/ ReplaceReviewer_Commit(p)

SpecFrame == InitFrame /\ [][NextFrame]_vars

\* C38 -- A stored pull request keeps its id, name, author and created
\* timestamp across every step; a step of MergePR changes nothing but the row
\* of the pull request it names (its status and merged timestamp) and leaves
\* every reviewer row and every other pull request unchanged; a step of
\* ReassignReviewer changes nothing but the reviewer rows of the pull request
\* it names.
C38_PRFrame ==
  [][/\ \A id \in DOMAIN pull_requests :
          /\ id \in DOMAIN pull_requests'
          /\ pull_requests'[id].pull_request_name = pull_requests[id].pull_request_name
          /\ pull_requests'[id].author_id = pull_requests[id].author_id
          /\ pull_requests'[id].created_at = pull_requests[id].created_at
     /\ \A p \in {1} :
          /\ (req[p].op = "merge" /\ req[p].pc # "done") =>
                /\ UNCHANGED <<teams, users, team_members, pr_reviewers>>
                /\ DOMAIN pull_requests' = DOMAIN pull_requests
                /\ \A id \in DOMAIN pull_requests \ {req[p].prID} :
                     pull_requests'[id] = pull_requests[id]
          /\ (req[p].op = "reassign" /\ req[p].pc # "done") =>
                /\ UNCHANGED <<teams, users, team_members, pull_requests>>
                /\ \A row \in BagToSet(pr_reviewers) \cup BagToSet(pr_reviewers') :
                     row[1] # req[p].prID =>
                       CopiesIn(row, pr_reviewers') = CopiesIn(row, pr_reviewers)]_vars

\* Two pull requests are stored, one is MERGED, and a reassignment on the
\* other one has succeeded.
C38_Witness ==
  \E p \in {1} :
    /\ req[p].op = "reassign" /\ req[p].pc = "done" /\ req[p].err = "OK"
    /\ \E id \in DOMAIN pull_requests \ {req[p].prID} :
         pull_requests[id].status = "MERGED"

\* C39 -- The identity codec is a bijection between accepted external ids and
\* internal keys: an external id the store accepted as the author of a pull
\* request is "u" followed by the decimal spelling of its key, so formatting
\* the key gives back the id the caller sent and no second spelling names the
\* same key.
C39_CodecBijection ==
  \A p \in {1} :
    (req[p].op = "createPR" /\ req[p].pc = "cr_add") =>
      /\ extractUserID(FormatUserID(pull_requests[req[p].prID].author_id)).id =
           pull_requests[req[p].prID].author_id
      /\ FormatUserID(pull_requests[req[p].prID].author_id) = req[p].userID

====
